---- MODULE Spec2Model ----
(***************************************************************************)
(* Model of the qgrep pack builder (src/build.cpp) and change watcher      *)
(* (src/watch.cpp).                                                        *)
(*                                                                         *)
(* Byte vectors are written compactly as [head, fill, size]: the bytes of  *)
(* `head` followed by copies of `fill` up to `size` bytes.  Indices into   *)
(* byte vectors are 0-based, as in the source.                             *)
(***************************************************************************)
EXTENDS Integers, Sequences, FiniteSets, TLC

\* ---------------------------------------------------------------- bounds
\* number of appendFilePart calls in one build
MaxFiles == 2
\* longest file body appended to the builder
MaxLen == 3
\* kChunkSize of constants.hpp, scaled down
kChunkSize == 2
\* number of explicitly chosen leading bytes of an indexed file
IxHeadLen == 3
\* number of distinct paths of the project and the pack
MaxPath == 3
\* number of fileChanged calls in one watch session
MaxNotifications == 3
\* kWatchUpdateThresholdFiles of constants.hpp, scaled down
kWatchUpdateThresholdFiles == 1
MaxItemCount == 6000

\* ------------------------------------------------------------- constants
\* '\n'
NL == 10
\* bytes that occur in file bodies
DataBytes == {NL, 97}
\* start lines passed to appendFilePart
StartLines == {0, 1}
\* bytes that occur in the files of an indexed chunk
IxBytes == {NL, 97, 98}
\* sizeof(DataChunkFileHeader): six 32-bit and two 64-bit fields
sizeofDataChunkFileHeader == 40

VARIABLES
    \* BuilderImpl
    pendingFiles,   \* std::list<File> pendingFiles
    pendingSize,    \* size_t pendingSize
    outData,        \* the chunks written to the pack, in order
    statistics,     \* Statistics
    appended,       \* history: the arguments of every appendFilePart call
    lastOp          \* history: the last builder operation that returned

VARIABLES
    \* prepareChunkIndex applied to one chunk
    ixChunk,        \* the Chunk passed to prepareChunkIndex
    ixIndex,        \* its result
    ixPc            \* "chunk" before the call, "indexed" after it

VARIABLES
    \* getChanges applied to one pair of lists
    gcFiles,        \* files: the current project, sorted by path
    gcPackFiles,    \* packFiles: the files of the pack, sorted by path
    gcResult,       \* result
    gcOob,          \* history: files[fileIt] was read with fileIt >= files.size()
    gcPc            \* "call" before the call, then "done" or "crashed"

VARIABLES
    \* watchProject
    changedFiles,        \* context.changedFiles
    changedFilesLast,    \* context.changedFilesLast (0: the empty string)
    locChangedFiles,     \* the local vector changedFiles of watchProject
    locChangedFilesLast, \* the local string changedFilesLast of watchProject
    watchPc,             \* position of the coordinator in watchProject
    signalled,           \* notify_one was called while the coordinator is in wait_for
    qgc,                 \* the changes file <project>.qgc
    qgcTemp,             \* the temp file <project>.qgc_
    held,                \* history: every value context.changedFiles has had
    notifications,       \* history: number of fileChanged calls
    updates              \* history: number of updateProject calls

VARIABLES
    \* buildProject
    buildPc,        \* position in buildProject
    writeFailed,    \* history: a write to the temp pack has failed (the stream is bad)
    targetRenamed,  \* the temp pack <target>_ was renamed to <target>
    errors          \* the kinds of error passed to output->error

VARIABLES
    \* getIndexHashIterations
    hashIndexSize,  \* the argument indexSize
    hashItemCount,  \* the argument itemCount
    hashIterations, \* the value returned
    hashPc

builderVars == <<pendingFiles, pendingSize, outData, statistics, appended, lastOp>>
indexVars == <<ixChunk, ixIndex, ixPc>>

diffVars == <<gcFiles, gcPackFiles, gcResult, gcOob, gcPc>>

watchVars == <<changedFiles, changedFilesLast, locChangedFiles, locChangedFilesLast,
               watchPc, signalled, qgc, qgcTemp, held, notifications, updates>>

buildVars == <<buildPc, writeFailed, targetRenamed, errors>>

hashVars == <<hashIndexSize, hashItemCount, hashIterations, hashPc>>

vars == <<builderVars, indexVars, diffVars, watchVars, buildVars, hashVars>>

\* ------------------------------------------------------------- files on disk
\* a file that does not exist
NoFile == [exists |-> FALSE, lines |-> <<>>]

\* a file holding the given lines, each ended by '\n'
FileOf(lines) == [exists |-> TRUE, lines |-> lines]

\* ------------------------------------------------------------- helpers
SetMax(S) == CHOOSE x \in S : \A y \in S : y <= x
SetMin(S) == CHOOSE x \in S : \A y \in S : x <= y

RECURSIVE SumTo(_, _)
\* f(1) + ... + f(n) for a sequence f of numbers
SumTo(f, n) == IF n = 0 THEN 0 ELSE SumTo(f, n - 1) + f[n]

RECURSIVE Concat(_, _)
\* f[1] \o ... \o f[n] for a sequence f of sequences
Concat(f, n) == IF n = 0 THEN <<>> ELSE Concat(f, n - 1) \o f[n]

\* a byte vector holding exactly the bytes of the sequence s
VecOf(s) == [head |-> s, fill |-> NL, size |-> Len(s)]

\* all sequences over S of length exactly n
SeqsOfLen(S, n) == [1..n -> S]

\* all sequences over S of length at most n
SeqsUpTo(S, n) == UNION {SeqsOfLen(S, k) : k \in 0..n}

\* ------------------------------------------------------------- Blob
\* (*storage)[i]
StorageByte(s, i) == IF i < Len(s.head) THEN s.head[i + 1] ELSE s.fill

\* Blob(std::vector<char> storage)
NewBlob(storage) == [offset |-> 0, count |-> storage.size, storage |-> storage]

\* Blob::data()[i]
BlobData(b, i) == StorageByte(b.storage, b.offset + i)

\* the bytes data()[0 .. size()) as a sequence
BlobBytes(b) == [i \in 1..b.count |-> BlobData(b, i - 1)]

\* ------------------------------------------------------------- splitting
skipByLines(data, dataSize) ==
    LET nls == {i \in 0..(dataSize - 1) : BlobData(data, i) = NL}
    IN  [first  |-> IF nls = {} THEN 0 ELSE SetMax(nls) + 1,
         second |-> Cardinality(nls)]

skipOneLine(data, dataSize) ==
    LET nls == {i \in 0..(dataSize - 1) : BlobData(data, i) = NL}
    IN  IF nls = {} THEN dataSize ELSE SetMin(nls) + 1

\* faulty variant: the remainder keeps the offset of the fragment it was cut from
splitPrefix_keepOffset(file, size) ==
    [result |-> [file EXCEPT !.contents.count = size],
     file   |-> [file EXCEPT !.contents.count = @ - size]]

splitPrefix(file, size) ==
    [result |-> [file EXCEPT !.contents.count = size],
     file   |-> [file EXCEPT !.contents.offset = @ + size,
                             !.contents.count = @ - size]]

EmptyChunk == [files |-> <<>>, totalSize |-> 0]

appendChunkFile(chunk, file) ==
    [files     |-> Append(chunk.files, file),
     totalSize |-> chunk.totalSize + file.contents.count]

\* faulty variant: an over-long line is never taken, not even into an empty chunk
appendChunkFilePrefix_never(chunk, file, remainingSize) ==
    LET skip == skipByLines(file.contents, remainingSize)
    IN  IF skip.first > 0
        THEN LET sp == splitPrefix(file, skip.first)
             IN  [chunk |-> [files     |-> Append(chunk.files, sp.result),
                             totalSize |-> chunk.totalSize + skip.first],
                  file  |-> [sp.file EXCEPT !.startLine = @ + skip.second]]
        ELSE [chunk |-> chunk, file |-> file]

\* faulty variant: takes the over-long line although the chunk already holds files
appendChunkFilePrefix_always(chunk, file, remainingSize) ==
    LET skip == skipByLines(file.contents, remainingSize)
        skipSize == IF skip.first > 0 THEN skip.first
                    ELSE skipOneLine(file.contents, file.contents.count)
        skipLines == IF skip.first > 0 THEN skip.second ELSE 1
        sp == splitPrefix(file, skipSize)
    IN  [chunk |-> [files     |-> Append(chunk.files, sp.result),
                    totalSize |-> chunk.totalSize + skipSize],
         file  |-> [sp.file EXCEPT !.startLine = @ + skipLines]]

appendChunkFilePrefix(chunk, file, remainingSize) ==
    LET skip == skipByLines(file.contents, remainingSize)
    IN  IF skip.first > 0 \/ chunk.files = <<>>
        THEN LET skipSize == IF skip.first > 0 THEN skip.first
                             ELSE skipOneLine(file.contents, file.contents.count)
                 skipLines == IF skip.first > 0 THEN skip.second ELSE 1
                 sp == splitPrefix(file, skipSize)
             IN  [chunk |-> [files     |-> Append(chunk.files, sp.result),
                             totalSize |-> chunk.totalSize + skipSize],
                  file  |-> [sp.file EXCEPT !.startLine = @ + skipLines]]
        ELSE [chunk |-> chunk, file |-> file]

RECURSIVE flushChunkGrab(_, _, _)
\* the while loop of flushChunk(size_t)
flushChunkGrab(chunk, pending, size) ==
    IF chunk.totalSize < size /\ pending # <<>>
    THEN LET file == Head(pending)
             remainingSize == size - chunk.totalSize
         IN  IF file.contents.count <= remainingSize
             THEN flushChunkGrab(appendChunkFile(chunk, file), Tail(pending), size)
             ELSE LET r == appendChunkFilePrefix(chunk, file, remainingSize)
                  IN  [chunk |-> r.chunk, pending |-> <<r.file>> \o Tail(pending)]
    ELSE [chunk |-> chunk, pending |-> pending]

\* ------------------------------------------------------------- chunk payload
getChunkNameTotalSize(chunk) ==
    SumTo([i \in 1..Len(chunk.files) |-> Len(chunk.files[i].name)], Len(chunk.files))

getChunkDataTotalSize(chunk) ==
    SumTo([i \in 1..Len(chunk.files) |-> chunk.files[i].contents.count], Len(chunk.files))

\* The payload: the table of DataChunkFileHeader, then `bytes`, the bytes
\* that follow the table (payload offset headerSize onwards).
prepareChunkData(chunk) ==
    LET n == Len(chunk.files)
        headerSize == sizeofDataChunkFileHeader * n
        nameSize == getChunkNameTotalSize(chunk)
        dataSize == getChunkDataTotalSize(chunk)
        nameLens == [i \in 1..n |-> Len(chunk.files[i].name)]
        dataLens == [i \in 1..n |-> chunk.files[i].contents.count]
        h(i) == LET f == chunk.files[i]
                IN  [nameOffset |-> headerSize + SumTo(nameLens, i - 1),
                     nameLength |-> Len(f.name),
                     dataOffset |-> headerSize + nameSize + SumTo(dataLens, i - 1),
                     dataSize   |-> f.contents.count,
                     startLine  |-> f.startLine,
                     reserved   |-> 0,
                     fileSize   |-> f.fileSize,
                     timeStamp  |-> f.timeStamp]
    IN  [table |-> [i \in 1..n |-> h(i)],
         bytes |-> Concat([i \in 1..n |-> chunk.files[i].name], n)
                   \o Concat([i \in 1..n |-> BlobBytes(chunk.files[i].contents)], n),
         size  |-> headerSize + nameSize + dataSize]

\* the n payload bytes at payload offset off
PayloadBytes(data, off, n) ==
    [i \in 1..n |-> data.bytes[off - sizeofDataChunkFileHeader * Len(data.table) + i]]

\* ------------------------------------------------------------- chunk index
\* faulty variant: a chunk of exactly 50 * 1024 bytes gets no index
getChunkIndexSize_tiny(chunk) ==
    LET dataSize == getChunkDataTotalSize(chunk)
        indexSize == dataSize \div 50
    IN  IF indexSize <= 1024 THEN 0 ELSE indexSize

getChunkIndexSize(chunk) ==
    LET dataSize == getChunkDataTotalSize(chunk)
        indexSize == dataSize \div 50
    IN  IF indexSize < 1024 THEN 0 ELSE indexSize

\* floor(0.693147181 * m), exact for m < 14590 without leaving 32-bit integers:
\* 693147181 * m = (693 * m) * 10^6 + 147181 * m
LnTwoTimes(m) == (693 * m + (147181 * m) \div 1000000) \div 1000

\* k is never an integer for 0 < m < 10^9, so static_cast<unsigned>(k) is
\* floor(k), k < 1 is floor(k) = 0 and k > 16 is floor(k) >= 16.
getIndexHashIterations(indexSize, itemCount) ==
    LET m == indexSize * 8
        n == itemCount
        k == IF n = 0 THEN 1 ELSE LnTwoTimes(m) \div n
    IN  IF k < 1 THEN 1 ELSE IF k >= 16 THEN 16 ELSE k

\* ngram(a, b, c, d) of bloom.hpp: the four bytes concatenated
ngram(a, b, c, d) == <<a, b, c, d>>

\* faulty variant: the loop starts at j = 4
FileNgrams_from4(file) ==
    {ngram(BlobData(file.contents, j - 3), BlobData(file.contents, j - 2),
           BlobData(file.contents, j - 1), BlobData(file.contents, j)) :
        j \in {i \in 4..(file.contents.count - 1) :
                  /\ BlobData(file.contents, i - 3) # NL
                  /\ BlobData(file.contents, i - 2) # NL
                  /\ BlobData(file.contents, i - 1) # NL
                  /\ BlobData(file.contents, i) # NL}}

\* the ngrams collected from one file of a chunk (the loop over j)
FileNgrams(file) ==
    {ngram(BlobData(file.contents, j - 3), BlobData(file.contents, j - 2),
           BlobData(file.contents, j - 1), BlobData(file.contents, j)) :
        j \in {i \in 3..(file.contents.count - 1) :
                  /\ BlobData(file.contents, i - 3) # NL
                  /\ BlobData(file.contents, i - 2) # NL
                  /\ BlobData(file.contents, i - 1) # NL
                  /\ BlobData(file.contents, i) # NL}}

\* The bloom filter is kept as the set of ngrams bloomFilterUpdate was
\* called with; `size` is the length of the index vector.
prepareChunkIndex(chunk) ==
    LET indexSize == getChunkIndexSize(chunk)
    IN  IF indexSize = 0
        THEN [size |-> 0, iterations |-> 0, ngrams |-> {}]
        ELSE LET ngrams == UNION {FileNgrams(chunk.files[i]) : i \in 1..Len(chunk.files)}
             IN  [size       |-> indexSize,
                  iterations |-> getIndexHashIterations(indexSize, Cardinality(ngrams)),
                  ngrams     |-> ngrams]

\* ------------------------------------------------------------- writing
\* b is the builder: [pendingFiles, pendingSize, outData, statistics].
\* compressData is LZ4 and is left out: the pack keeps the payload itself,
\* and compressedSize / statistics.resultSize are not modelled.  `files` is
\* history: the File records the chunk was built from.
writeChunk(b, chunk, index, data) ==
    LET header == [fileCount           |-> Len(chunk.files),
                   uncompressedSize    |-> data.size,
                   indexSize           |-> index.size,
                   indexHashIterations |-> index.iterations,
                   fileTableSize       |-> 0,
                   extraSize           |-> 0]
        first == {i \in 1..Len(chunk.files) : chunk.files[i].startLine = 0}
    IN  [b EXCEPT !.outData = Append(@, [header |-> header, index |-> index,
                                         data |-> data, files |-> chunk.files]),
                  !.statistics = [fileCount |-> @.fileCount + Cardinality(first),
                                  fileSize  |-> @.fileSize + data.size]]

\* flushChunk(const Chunk&)
flushChunkStore(b, chunk) ==
    IF chunk.files = <<>> THEN b
    ELSE writeChunk(b, chunk, prepareChunkIndex(chunk), prepareChunkData(chunk))

\* flushChunk(size_t)
flushChunk(b, size) ==
    LET g == flushChunkGrab(EmptyChunk, b.pendingFiles, size)
    IN  flushChunkStore([b EXCEPT !.pendingFiles = g.pending,
                                  !.pendingSize = @ - g.chunk.totalSize],
                        g.chunk)

RECURSIVE flushIfNeeded(_)
\* faulty variant: a chunk is cut only above twice the chunk size
flushIfNeeded_lazy(b) ==
    IF b.pendingSize > kChunkSize * 2 THEN flushIfNeeded(flushChunk(b, kChunkSize)) ELSE b
flushIfNeeded(b) ==
    IF b.pendingSize >= kChunkSize * 2 THEN flushIfNeeded(flushChunk(b, kChunkSize)) ELSE b

RECURSIVE flush(_)
flush(b) ==
    IF b.pendingSize > 0 THEN flush(flushChunk(b, kChunkSize)) ELSE b

\* ------------------------------------------------------------- builder
Builder == [pendingFiles |-> pendingFiles, pendingSize |-> pendingSize,
            outData |-> outData, statistics |-> statistics]

SetBuilder(b) ==
    /\ pendingFiles' = b.pendingFiles
    /\ pendingSize' = b.pendingSize
    /\ outData' = b.outData
    /\ statistics' = b.statistics

\* the path of the k-th appended file
PathOf(k) == <<k>>

\* BuilderImpl() and start()
BuilderInit ==
    /\ pendingFiles = <<>>
    /\ pendingSize = 0
    /\ outData = <<>>
    /\ statistics = [fileCount |-> 0, fileSize |-> 0]
    /\ appended = <<>>
    /\ lastOp = "start"

appendFilePart(path, startLine, data, lastWriteTime, fileSize) ==
    LET file == [name |-> path, startLine |-> startLine, timeStamp |-> lastWriteTime,
                 fileSize |-> fileSize, contents |-> NewBlob(data)]
    IN  flushIfNeeded([Builder EXCEPT !.pendingFiles = Append(@, file),
                                      !.pendingSize = @ + data.size])

AppendFilePart ==
    /\ Len(appended) < MaxFiles
    /\ \E startLine \in StartLines, body \in SeqsUpTo(DataBytes, MaxLen) :
          /\ SetBuilder(appendFilePart(PathOf(Len(appended) + 1), startLine,
                                       VecOf(body), 0, Len(body)))
          /\ appended' = Append(appended, [startLine |-> startLine, data |-> body])
    /\ lastOp' = "append"
    /\ UNCHANGED <<indexVars, diffVars, watchVars, buildVars, hashVars>>

Flush ==
    /\ lastOp # "flush"
    /\ SetBuilder(flush(Builder))
    /\ lastOp' = "flush"
    /\ UNCHANGED <<appended, indexVars, diffVars, watchVars, buildVars, hashVars>>

\* the other components, idle
NoIndex == [size |-> 0, iterations |-> 0, ngrams |-> {}]

IndexIdle == ixChunk = EmptyChunk /\ ixIndex = NoIndex /\ ixPc = "idle"

DiffIdle ==
    /\ gcFiles = <<>>
    /\ gcPackFiles = <<>>
    /\ gcResult = <<>>
    /\ gcOob = FALSE
    /\ gcPc = "idle"

WatchIdle ==
    /\ changedFiles = {}
    /\ changedFilesLast = 0
    /\ locChangedFiles = <<>>
    /\ locChangedFilesLast = 0
    /\ watchPc = "idle"
    /\ signalled = FALSE
    /\ qgc = NoFile
    /\ qgcTemp = NoFile
    /\ held = {}
    /\ notifications = 0
    /\ updates = 0

BuildIdle ==
    /\ buildPc = "idle"
    /\ writeFailed = FALSE
    /\ targetRenamed = FALSE
    /\ errors = {}

HashIdle ==
    /\ hashIndexSize = 0
    /\ hashItemCount = 0
    /\ hashIterations = 0
    /\ hashPc = "idle"

Init == BuilderInit /\ IndexIdle /\ DiffIdle /\ WatchIdle /\ BuildIdle /\ HashIdle

Next == AppendFilePart \/ Flush

Spec == Init /\ [][Next]_vars

\* ------------------------------------------------------------- one cut
\* A fragment as flushChunk(size_t) leaves it at the front of the queue: the
\* bytes before its offset are whole lines, or the whole file was taken.
HeadFragments ==
    {[name |-> PathOf(1), startLine |-> startLine, timeStamp |-> 0, fileSize |-> Len(body),
      contents |-> [offset |-> offset, count |-> Len(body) - offset, storage |-> VecOf(body)]] :
        <<startLine, body, offset>> \in
            {t \in StartLines \X SeqsUpTo(DataBytes, MaxLen) \X (0..MaxLen) :
                /\ t[3] <= Len(t[2])
                /\ t[3] > 0 => (t[1] > 0 /\ (t[2][t[3]] = NL \/ t[3] = Len(t[2])))}}

\* The k-th file of the queue as appendFile queues it
TailFile(k, body) ==
    [name |-> PathOf(k), startLine |-> 0, timeStamp |-> 0, fileSize |-> Len(body),
     contents |-> NewBlob(VecOf(body))]

\* the fragment at position k + 1 of the queue is met with k files in the
\* chunk, does not fit, and has no line end within the remaining size
DeferredSplit(pending, k, size) ==
    /\ k >= 1
    /\ k < Len(pending)
    /\ LET totalSize == SumTo([i \in 1..Len(pending) |-> pending[i].contents.count], k)
           file == pending[k + 1]
       IN  /\ totalSize < size
           /\ file.contents.count > size - totalSize
           /\ \A i \in 0..(size - totalSize - 1) : BlobData(file.contents, i) # NL

\* one call of flushChunk(kChunkSize) from the loop of flush
\* history: whether the cut about to be made meets a deferred split
CutOp ==
    IF \E k \in 1..Len(pendingFiles) : DeferredSplit(pendingFiles, k, kChunkSize)
    THEN "deferred" ELSE "cut"

FlushChunk ==
    /\ pendingSize > 0
    /\ SetBuilder(flushChunk(Builder, kChunkSize))
    /\ lastOp' = CutOp
    /\ UNCHANGED <<appended, indexVars, diffVars, watchVars, buildVars, hashVars>>

CutInit ==
    /\ \E n \in 1..MaxFiles : \E head \in HeadFragments :
          \E bodies \in [2..n -> SeqsUpTo(DataBytes, MaxLen)] :
              pendingFiles = [i \in 1..n |-> IF i = 1 THEN head ELSE TailFile(i, bodies[i])]
    /\ pendingSize = SumTo([i \in 1..Len(pendingFiles) |-> pendingFiles[i].contents.count],
                           Len(pendingFiles))
    /\ outData = <<>>
    /\ statistics = [fileCount |-> 0, fileSize |-> 0]
    /\ appended = <<>>
    /\ lastOp = "start"

InitCut == CutInit /\ IndexIdle /\ DiffIdle /\ WatchIdle /\ BuildIdle /\ HashIdle

NextCut == FlushChunk

SpecCut == InitCut /\ [][NextCut]_vars

\* ENABLED <<FlushChunk>>_vars, written out: the loop condition holds and
\* the call changes the state
FlushChunkEnabled ==
    /\ pendingSize > 0
    /\ LET b == flushChunk(Builder, kChunkSize)
       IN  <<b.pendingFiles, b.pendingSize, b.outData, b.statistics, CutOp>>
               # <<pendingFiles, pendingSize, outData, statistics, lastOp>>

\* The loops of flushIfNeeded and flush call flushChunk again as long as
\* their condition holds: the thread that appends or flushes keeps running.
\* This is WF_vars(FlushChunk) with ENABLED written as FlushChunkEnabled.
SpecCutFair ==
    /\ SpecCut
    /\ ([]<>(~FlushChunkEnabled) \/ []<><<FlushChunk>>_vars)

\* ------------------------------------------------------------- hash iterations
\* the index sizes and ngram counts getIndexHashIterations is called with:
\* prepareChunkIndex passes an index size of at least 1024 bytes and the
\* number of distinct ngrams of up to 50 times as many body bytes
HashIndexSizes == {1024, 1536}

HashInit ==
    /\ hashIndexSize \in HashIndexSizes
    /\ hashItemCount \in 0..MaxItemCount
    /\ hashIterations = 0
    /\ hashPc = "call"

GetIndexHashIterations ==
    /\ hashPc = "call"
    /\ hashIterations' = getIndexHashIterations(hashIndexSize, hashItemCount)
    /\ hashPc' = "done"
    /\ UNCHANGED <<hashIndexSize, hashItemCount>>
    /\ UNCHANGED <<builderVars, indexVars, diffVars, watchVars, buildVars>>

InitHash == BuilderInit /\ IndexIdle /\ DiffIdle /\ WatchIdle /\ BuildIdle /\ HashInit

NextHash == GetIndexHashIterations

SpecHash == InitHash /\ [][NextHash]_vars

\* ------------------------------------------------------------- buildProject
\* Every ofstream::write of the builder may fail; the stream then stays bad.
\* The builder never looks at the state of the stream.
WritesMayFail(chunksBefore, chunksAfter) ==
    \E fails \in BOOLEAN :
        writeFailed' = (writeFailed \/ (fails /\ chunksAfter > chunksBefore))

\* createBuilder: start() opens the temp pack and writes the file header
BuildCreate ==
    /\ buildPc = "create"
    /\ \E fails \in BOOLEAN : writeFailed' = fails
    /\ buildPc' = "append"
    /\ UNCHANGED <<builderVars, targetRenamed, errors>>
    /\ UNCHANGED <<indexVars, diffVars, watchVars, hashVars>>

\* createBuilder: start() cannot open the temp pack; buildProject returns
BuildCreateFails ==
    /\ buildPc = "create"
    /\ errors' = errors \cup {"open"}
    /\ buildPc' = "done"
    /\ UNCHANGED <<builderVars, writeFailed, targetRenamed>>
    /\ UNCHANGED <<indexVars, diffVars, watchVars, hashVars>>

\* builder->appendFile(path) for the next file of the project
BuildAppendFile ==
    /\ buildPc = "append"
    /\ Len(appended) < MaxFiles
    /\ \E body \in SeqsUpTo(DataBytes, MaxLen) :
          LET b == appendFilePart(PathOf(Len(appended) + 1), 0, VecOf(body), 0, Len(body))
          IN  /\ SetBuilder(b)
              /\ WritesMayFail(Len(outData), Len(b.outData))
          /\ appended' = Append(appended, [startLine |-> 0, data |-> body])
    /\ lastOp' = "append"
    /\ UNCHANGED <<buildPc, targetRenamed, errors>>
    /\ UNCHANGED <<indexVars, diffVars, watchVars, hashVars>>

\* builder->appendFile(path) for a file that cannot be read
BuildAppendFileFails ==
    /\ buildPc = "append"
    /\ "read" \notin errors
    /\ errors' = errors \cup {"read"}
    /\ UNCHANGED <<builderVars, buildPc, writeFailed, targetRenamed>>
    /\ UNCHANGED <<indexVars, diffVars, watchVars, hashVars>>

\* the end of the block: ~Builder calls flush and deletes the BuilderImpl
BuildClose ==
    /\ buildPc = "append"
    /\ LET b == flush(Builder)
       IN  /\ SetBuilder(b)
           /\ WritesMayFail(Len(outData), Len(b.outData))
    /\ lastOp' = "flush"
    /\ buildPc' = "rename"
    /\ UNCHANGED <<appended, targetRenamed, errors>>
    /\ UNCHANGED <<indexVars, diffVars, watchVars, hashVars>>

\* renameFile(tempPath, targetPath) succeeds
BuildRename ==
    /\ buildPc = "rename"
    /\ targetRenamed' = TRUE
    /\ buildPc' = "done"
    /\ UNCHANGED <<builderVars, writeFailed, errors>>
    /\ UNCHANGED <<indexVars, diffVars, watchVars, hashVars>>

\* renameFile(tempPath, targetPath) fails
BuildRenameFails ==
    /\ buildPc = "rename"
    /\ errors' = errors \cup {"save"}
    /\ buildPc' = "done"
    /\ UNCHANGED <<builderVars, writeFailed, targetRenamed>>
    /\ UNCHANGED <<indexVars, diffVars, watchVars, hashVars>>

\* buildProject after getProjectFiles and buildFiles
BuildInit ==
    /\ buildPc = "create"
    /\ writeFailed = FALSE
    /\ targetRenamed = FALSE
    /\ errors = {}

InitBuild == BuilderInit /\ IndexIdle /\ DiffIdle /\ WatchIdle /\ BuildInit /\ HashIdle

NextBuild ==
    \/ BuildCreate
    \/ BuildCreateFails
    \/ BuildAppendFile
    \/ BuildAppendFileFails
    \/ BuildClose
    \/ BuildRename
    \/ BuildRenameFails

SpecBuild == InitBuild /\ [][NextBuild]_vars

\* ------------------------------------------------------------- index of one chunk
\* A file of `count` bytes read at `offset` of its storage: IxHeadLen chosen
\* bytes, then `fill` repeated.
IxFile(k, head, fill, offset, count) ==
    [name |-> PathOf(k), startLine |-> offset, timeStamp |-> 0, fileSize |-> offset + count,
     contents |-> [offset |-> offset, count |-> count,
                   storage |-> [head |-> head, fill |-> fill, size |-> offset + count]]]

\* one byte less than the smallest chunk that gets an index
IxCounts == {50 * 1024 - 1}

\* chunks of one large file, alone or followed by a one-byte file
IxChunks ==
    LET big == {IxFile(1, head, fill, offset, count) :
                   head \in SeqsOfLen(IxBytes, IxHeadLen), fill \in {NL, 97},
                   offset \in {0, 1}, count \in IxCounts}
        tiny == IxFile(2, <<97>>, NL, 0, 1)
    IN  {appendChunkFile(EmptyChunk, f) : f \in big}
        \cup {appendChunkFile(appendChunkFile(EmptyChunk, f), tiny) : f \in big}

IndexInit ==
    /\ ixChunk \in IxChunks
    /\ ixIndex = NoIndex
    /\ ixPc = "chunk"

PrepareChunkIndex ==
    /\ ixPc = "chunk"
    /\ ixIndex' = prepareChunkIndex(ixChunk)
    /\ ixPc' = "indexed"
    /\ UNCHANGED <<ixChunk, builderVars, diffVars, watchVars, buildVars, hashVars>>

InitIndex == BuilderInit /\ IndexInit /\ DiffIdle /\ WatchIdle /\ BuildIdle /\ HashIdle

NextIndex == PrepareChunkIndex

SpecIndex == InitIndex /\ [][NextIndex]_vars

\* ------------------------------------------------------------- getChanges
\* paths are numbered in their sort order
Paths == 1..MaxPath

\* FileInfo::timeStamp and FileInfo::fileSize
FileAttrs == {1, 2}

FileInfos == [path : Paths, timeStamp : FileAttrs, fileSize : FileAttrs]

RECURSIVE SortedSeq(_)
\* the elements of a set of numbers in increasing order
SortedSeq(S) == IF S = {} THEN <<>> ELSE <<SetMin(S)>> \o SortedSeq(S \ {SetMin(S)})

\* the lists of FileInfo sorted by path, without duplicate paths
SortedFileLists ==
    UNION {{[i \in 1..Len(SortedSeq(P)) |-> [path |-> SortedSeq(P)[i],
                                              timeStamp |-> a[SortedSeq(P)[i]].t,
                                              fileSize |-> a[SortedSeq(P)[i]].s]] :
               a \in [P -> [t : FileAttrs, s : FileAttrs]]} :
           P \in SUBSET Paths}

\* what files[fileIt] can hold when fileIt >= files.size(): any FileInfo,
\* with a path of the lists or some other string (0)
GarbageInfos == [path : Paths \cup {0}, timeStamp : FileAttrs, fileSize : FileAttrs]

\* the while loop at the head of the body of the for loop: fileIt after it
SkipLess(files, fileIt, pf) ==
    IF fileIt >= Len(files) THEN fileIt
    ELSE SetMin({j \in fileIt..Len(files) :
                    j >= Len(files) \/ ~(files[j + 1].path < pf.path)})

\* the paths files[from .. to - 1]
PathsFrom(files, from, to) == [i \in 1..(to - from) |-> files[from + i].path]

\* the if statement of the body, for the value f read from files[fileIt]
CompareWith(f, pf, fileIt, result) ==
    IF f.path = pf.path
    THEN [fileIt |-> fileIt + 1,
          result |-> IF f.timeStamp # pf.timeStamp \/ f.fileSize # pf.fileSize
                     THEN Append(result, f.path) ELSE result]
    ELSE [fileIt |-> fileIt, result |-> result]

RECURSIVE getChangesFrom(_, _, _, _, _, _)
\* The outcomes of getChanges from the p-th element of packFiles on; fileIt is
\* 0-based.  A read of files[fileIt] beyond the end of the vector is undefined:
\* it crashes or yields some FileInfo.
getChangesFrom(files, packFiles, p, fileIt, result, oob) ==
    IF p > Len(packFiles)
    THEN {[result  |-> result \o PathsFrom(files, fileIt, IF fileIt < Len(files) THEN Len(files) ELSE fileIt),
           crashed |-> FALSE, oob |-> oob]}
    ELSE LET pf == packFiles[p]
             it == SkipLess(files, fileIt, pf)
             res == result \o PathsFrom(files, fileIt, it)
         IN  IF it < Len(files)
             THEN LET c == CompareWith(files[it + 1], pf, it, res)
                  IN  getChangesFrom(files, packFiles, p + 1, c.fileIt, c.result, oob)
             ELSE {[result |-> res, crashed |-> TRUE, oob |-> TRUE]}
                  \cup UNION {getChangesFrom(files, packFiles, p + 1,
                                             CompareWith(g, pf, it, res).fileIt,
                                             CompareWith(g, pf, it, res).result, TRUE) :
                              g \in GarbageInfos}

getChanges(files, packFiles) == getChangesFrom(files, packFiles, 1, 0, <<>>, FALSE)

DiffInit ==
    /\ gcFiles \in SortedFileLists
    /\ gcPackFiles \in SortedFileLists
    /\ gcResult = <<>>
    /\ gcOob = FALSE
    /\ gcPc = "call"

GetChanges ==
    /\ gcPc = "call"
    /\ \E o \in getChanges(gcFiles, gcPackFiles) :
          /\ gcResult' = o.result
          /\ gcOob' = o.oob
          /\ gcPc' = IF o.crashed THEN "crashed" ELSE "done"
    /\ UNCHANGED <<gcFiles, gcPackFiles, builderVars, indexVars, watchVars, buildVars, hashVars>>

InitDiff == BuilderInit /\ IndexIdle /\ DiffInit /\ WatchIdle /\ BuildIdle /\ HashIdle

NextDiff == GetChanges

SpecDiff == InitDiff /\ [][NextDiff]_vars

\* ------------------------------------------------------------- watchProject
\* The mutex: every action below that touches context.* is one critical
\* section.  The coordinator gives the lock up only inside wait / wait_for.
SeqToSet(q) == {q[i] : i \in 1..Len(q)}

LastOf(q, default) == IF q = <<>> THEN default ELSE q[Len(q)]

\* fileChanged for an acceptable file, called by a watching thread; these
\* threads run from startWatchingRec on, before the set is seeded
FileChanged(npath) ==
    /\ watchPc # "idle"
    /\ notifications < MaxNotifications
    /\ notifications' = notifications + 1
    /\ changedFiles' = changedFiles \cup {npath}
    /\ changedFilesLast' = npath
    /\ held' = held \cup {changedFiles'}
    /\ signalled' = (signalled \/ watchPc = "timedwait")
    /\ UNCHANGED <<locChangedFiles, locChangedFilesLast, watchPc, qgc, qgcTemp, updates>>
    /\ UNCHANGED <<builderVars, indexVars, diffVars, buildVars, hashVars>>

\* faulty variant: the result of getChanges is not inserted into the set
Seed_skip ==
    /\ watchPc = "seed"
    /\ watchPc' = "initsync"
    /\ UNCHANGED <<changedFiles, changedFilesLast, held, locChangedFiles,
                   locChangedFilesLast, signalled, qgc, qgcTemp, notifications, updates>>
    /\ UNCHANGED <<builderVars, indexVars, diffVars, buildVars, hashVars>>

\* the block that seeds context.changedFiles with the result of getChanges
Seed ==
    /\ watchPc = "seed"
    /\ changedFiles' = changedFiles \cup SeqToSet(locChangedFiles)
    /\ changedFilesLast' = LastOf(locChangedFiles, changedFilesLast)
    /\ held' = held \cup {changedFiles \cup SeqToSet(SubSeq(locChangedFiles, 1, k)) :
                              k \in 0..Len(locChangedFiles)}
    /\ watchPc' = "initsync"
    /\ UNCHANGED <<locChangedFiles, locChangedFilesLast, signalled, qgc, qgcTemp,
                   notifications, updates>>
    /\ UNCHANGED <<builderVars, indexVars, diffVars, buildVars, hashVars>>

\* writeChanges is entered for the initial sync and from the loop
InWriteChanges == watchPc \in {"initsync", "write"}

\* writeChanges with an empty list: removeFile
WriteChangesRemove ==
    /\ InWriteChanges
    /\ locChangedFiles = <<>>
    /\ qgc' = NoFile
    /\ watchPc' = "loop"
    /\ UNCHANGED <<changedFiles, changedFilesLast, locChangedFiles, locChangedFilesLast,
                   signalled, qgcTemp, held, notifications, updates>>
    /\ UNCHANGED <<builderVars, indexVars, diffVars, buildVars, hashVars>>

\* writeChanges: the temp file is opened for writing
WriteChangesOpen ==
    /\ InWriteChanges
    /\ locChangedFiles # <<>>
    /\ qgcTemp' = FileOf(<<>>)
    /\ watchPc' = "writing"
    /\ UNCHANGED <<changedFiles, changedFilesLast, locChangedFiles, locChangedFilesLast,
                   signalled, qgc, held, notifications, updates>>
    /\ UNCHANGED <<builderVars, indexVars, diffVars, buildVars, hashVars>>

\* writeChanges: the temp file cannot be opened; false is returned and the
\* loop goes on
WriteChangesOpenFails ==
    /\ InWriteChanges
    /\ locChangedFiles # <<>>
    /\ watchPc' = "loop"
    /\ UNCHANGED <<changedFiles, changedFilesLast, locChangedFiles, locChangedFilesLast,
                   signalled, qgc, qgcTemp, held, notifications, updates>>
    /\ UNCHANGED <<builderVars, indexVars, diffVars, buildVars, hashVars>>

\* writeChanges: one path and its '\n' are written to the temp file
WriteChangesLine ==
    /\ watchPc = "writing"
    /\ Len(qgcTemp.lines) < Len(locChangedFiles)
    /\ qgcTemp' = FileOf(Append(qgcTemp.lines, locChangedFiles[Len(qgcTemp.lines) + 1]))
    /\ UNCHANGED <<changedFiles, changedFilesLast, locChangedFiles, locChangedFilesLast,
                   watchPc, signalled, qgc, held, notifications, updates>>
    /\ UNCHANGED <<builderVars, indexVars, diffVars, buildVars, hashVars>>

\* writeChanges: the temp file is closed and renamed over the changes file
WriteChangesRename ==
    /\ watchPc = "writing"
    /\ Len(qgcTemp.lines) = Len(locChangedFiles)
    /\ qgc' = qgcTemp
    /\ qgcTemp' = NoFile
    /\ watchPc' = "loop"
    /\ UNCHANGED <<changedFiles, changedFilesLast, locChangedFiles, locChangedFilesLast,
                   signalled, held, notifications, updates>>
    /\ UNCHANGED <<builderVars, indexVars, diffVars, buildVars, hashVars>>

\* writeChanges: renameFile fails; false is returned and the loop goes on
WriteChangesRenameFails ==
    /\ watchPc = "writing"
    /\ Len(qgcTemp.lines) = Len(locChangedFiles)
    /\ watchPc' = "loop"
    /\ UNCHANGED <<changedFiles, changedFilesLast, locChangedFiles, locChangedFilesLast,
                   signalled, qgc, qgcTemp, held, notifications, updates>>
    /\ UNCHANGED <<builderVars, indexVars, diffVars, buildVars, hashVars>>

\* faulty variant: the threshold is compared one too high
updateNeeded_late == Len(locChangedFiles) > kWatchUpdateThresholdFiles + 1

\* updateNeeded, as computed at the head of the loop
updateNeeded == Len(locChangedFiles) > kWatchUpdateThresholdFiles

\* faulty variant: the local list is not assigned
Snapshot_stale(files) ==
    /\ locChangedFiles' = locChangedFiles
    /\ locChangedFilesLast' = changedFilesLast

\* the copy of context.changedFiles and context.changedFilesLast made under the lock
Snapshot(files) ==
    /\ locChangedFiles' = SortedSeq(files)
    /\ locChangedFilesLast' = changedFilesLast

\* !updateNeeded: wait(lock, predicate) returns once the sizes differ, then
\* the snapshot is taken under the same lock
WaitChanged ==
    /\ watchPc = "loop"
    /\ ~updateNeeded
    /\ Cardinality(changedFiles) # Len(locChangedFiles)
    /\ Snapshot(changedFiles)
    /\ watchPc' = "write"
    /\ UNCHANGED <<changedFiles, changedFilesLast, signalled, qgc, qgcTemp, held,
                   notifications, updates>>
    /\ UNCHANGED <<builderVars, indexVars, diffVars, buildVars, hashVars>>

\* faulty variant: wait_for is entered whatever the size of the last snapshot
WaitForEnter_always ==
    /\ watchPc = "loop"
    /\ watchPc' = "timedwait"
    /\ signalled' = FALSE
    /\ UNCHANGED <<changedFiles, changedFilesLast, locChangedFiles, locChangedFilesLast,
                   qgc, qgcTemp, held, notifications, updates>>
    /\ UNCHANGED <<builderVars, indexVars, diffVars, buildVars, hashVars>>

\* updateNeeded: wait_for releases the lock and blocks
WaitForEnter ==
    /\ watchPc = "loop"
    /\ updateNeeded
    /\ watchPc' = "timedwait"
    /\ signalled' = FALSE
    /\ UNCHANGED <<changedFiles, changedFilesLast, locChangedFiles, locChangedFilesLast,
                   qgc, qgcTemp, held, notifications, updates>>
    /\ UNCHANGED <<builderVars, indexVars, diffVars, buildVars, hashVars>>

\* wait_for returns cv_status::timeout: the set is cleared and copied.  The
\* lock is taken again after the timeout expired, so paths inserted in
\* between are in the set that is cleared.
WaitForTimeout ==
    /\ watchPc = "timedwait"
    /\ changedFiles' = {}
    /\ held' = held \cup {{}}
    /\ Snapshot({})
    /\ watchPc' = "update"
    /\ signalled' = FALSE
    /\ UNCHANGED <<changedFilesLast, qgc, qgcTemp, notifications, updates>>
    /\ UNCHANGED <<builderVars, indexVars, diffVars, buildVars, hashVars>>

\* wait_for returns cv_status::no_timeout after a notify_one
WaitForNotified ==
    /\ watchPc = "timedwait"
    /\ signalled
    /\ Snapshot(changedFiles)
    /\ watchPc' = "write"
    /\ signalled' = FALSE
    /\ UNCHANGED <<changedFiles, changedFilesLast, qgc, qgcTemp, held, notifications, updates>>
    /\ UNCHANGED <<builderVars, indexVars, diffVars, buildVars, hashVars>>

\* wait_for returns cv_status::no_timeout without a notify_one (a spurious wakeup)
WaitForSpurious ==
    /\ watchPc = "timedwait"
    /\ ~signalled
    /\ Snapshot(changedFiles)
    /\ watchPc' = "write"
    /\ UNCHANGED <<changedFiles, changedFilesLast, signalled, qgc, qgcTemp, held,
                   notifications, updates>>
    /\ UNCHANGED <<builderVars, indexVars, diffVars, buildVars, hashVars>>

\* updateNow: updateProject removes the changes file and updates the pack
UpdateProject ==
    /\ watchPc = "update"
    /\ qgc' = NoFile
    /\ updates' = updates + 1
    /\ watchPc' = "loop"
    /\ UNCHANGED <<changedFiles, changedFilesLast, locChangedFiles, locChangedFilesLast,
                   signalled, qgcTemp, held, notifications>>
    /\ UNCHANGED <<builderVars, indexVars, diffVars, buildVars, hashVars>>

\* watchProject after removeFile(<project>.qgc) and getChanges: the local
\* changedFiles is any sorted list of paths
WatchInit ==
    /\ changedFiles = {}
    /\ changedFilesLast = 0
    /\ locChangedFiles \in {SortedSeq(P) : P \in SUBSET Paths}
    /\ locChangedFilesLast = 0
    /\ watchPc = "seed"
    /\ signalled = FALSE
    /\ qgc = NoFile
    /\ qgcTemp = NoFile
    /\ held = {{}}
    /\ notifications = 0
    /\ updates = 0

InitWatch == BuilderInit /\ IndexIdle /\ DiffIdle /\ WatchInit /\ BuildIdle /\ HashIdle

NextWatch ==
    \/ \E npath \in Paths : FileChanged(npath)
    \/ Seed
    \/ WriteChangesRemove
    \/ WriteChangesOpen
    \/ WriteChangesOpenFails
    \/ WriteChangesLine
    \/ WriteChangesRename
    \/ WriteChangesRenameFails
    \/ WaitChanged
    \/ WaitForEnter
    \/ WaitForTimeout
    \/ WaitForNotified
    \/ WaitForSpurious
    \/ UpdateProject

SpecWatch == InitWatch /\ [][NextWatch]_vars

\* the steps of the thread that runs watchProject
CoordinatorStep ==
    \/ Seed
    \/ WriteChangesRemove
    \/ WriteChangesOpen
    \/ WriteChangesOpenFails
    \/ WriteChangesLine
    \/ WriteChangesRename
    \/ WriteChangesRenameFails
    \/ WaitChanged
    \/ WaitForEnter
    \/ WaitForTimeout
    \/ WaitForNotified
    \/ WaitForSpurious
    \/ UpdateProject

\* The coordinator thread keeps running, and a wait_for that is entered again
\* and again ends by its timeout at some time (kWatchUpdateTimeout elapses
\* unless the thread is woken).  Nothing is assumed about the notifiers.
SpecWatchFair ==
    /\ SpecWatch
    /\ WF_vars(CoordinatorStep)
    /\ SF_vars(WaitForTimeout)

\* ------------------------------------------------------------- the pack, read back
\* the file table entries of the pack, in pack order
PackEntries ==
    Concat([c \in 1..Len(outData) |->
               [i \in 1..Len(outData[c].data.table) |-> [chunk |-> c, idx |-> i]]],
           Len(outData))

EntryHeader(e) == outData[e.chunk].data.table[e.idx]

\* the File record an entry was written from
EntryFile(e) == outData[e.chunk].files[e.idx]

EntryName(e) ==
    PayloadBytes(outData[e.chunk].data, EntryHeader(e).nameOffset, EntryHeader(e).nameLength)

EntryBody(e) ==
    PayloadBytes(outData[e.chunk].data, EntryHeader(e).dataOffset, EntryHeader(e).dataSize)

\* the entries of the k-th appended file, in pack order
EntriesOf(k) ==
    LET isK(e) == EntryName(e) = PathOf(k)
    IN  SelectSeq(PackEntries, isK)

\* sum of data_size over the entries of chunk c
ChunkBodyBytes(c) ==
    SumTo([i \in 1..Len(outData[c].data.table) |-> outData[c].data.table[i].dataSize],
          Len(outData[c].data.table))

\* the number of '\n' among the first n bytes of a byte vector
NewlinesBefore(storage, n) == Cardinality({i \in 0..(n - 1) : StorageByte(storage, i) = NL})

\* the k-th append was made with start_line = 0
AppendedAtLineZero(file) == appended[file.name[1]].startLine = 0

\* ------------------------------------------------------------- claims: builder
\* the fragment is one line: no '\n' before its last byte, and it ends with
\* '\n' or at the end of its file
IsOneLine(file) ==
    /\ \A i \in 0..(file.contents.count - 2) : BlobData(file.contents, i) # NL
    /\ \/ BlobData(file.contents, file.contents.count - 1) = NL
       \/ file.contents.offset + file.contents.count = file.contents.storage.size

\* C1: every chunk written holds at most kChunkSize body bytes, unless it is
\* exactly one fragment which is a single line longer than kChunkSize.
C1_ChunkBudget ==
    \A c \in 1..Len(outData) :
        \/ ChunkBodyBytes(c) <= kChunkSize
        \/ /\ Len(outData[c].files) = 1
           /\ outData[c].files[1].contents.count > kChunkSize
           /\ IsOneLine(outData[c].files[1])

\* an over-budget chunk was written, and so was a chunk of two fragments
C1_Witness ==
    /\ \E c \in 1..Len(outData) : ChunkBodyBytes(c) > kChunkSize
    /\ \E c \in 1..Len(outData) :
          Len(outData[c].files) >= 2 /\ ChunkBodyBytes(c) = kChunkSize

\* C2: every written fragment with start_line > 0 of a file appended with
\* start_line = 0 is preceded in its file by '\n'.
C2_LineAlignment ==
    \A n \in 1..Len(PackEntries) :
        LET f == EntryFile(PackEntries[n])
        IN  (AppendedAtLineZero(f) /\ EntryHeader(PackEntries[n]).startLine > 0)
            => /\ f.contents.offset > 0
               /\ StorageByte(f.contents.storage, f.contents.offset - 1) = NL

\* C3: every queued or written fragment of a file appended with start_line = 0
\* carries the number of '\n' bytes of the file that precede it.
C3_StartLineAccounting ==
    /\ \A n \in 1..Len(PackEntries) :
          LET f == EntryFile(PackEntries[n])
          IN  AppendedAtLineZero(f)
              => EntryHeader(PackEntries[n]).startLine
                 = NewlinesBefore(f.contents.storage, f.contents.offset)
    /\ \A n \in 1..Len(pendingFiles) :
          LET f == pendingFiles[n]
          IN  AppendedAtLineZero(f)
              => f.startLine = NewlinesBefore(f.contents.storage, f.contents.offset)

\* C4: after flush, the bodies of the entries of each appended file,
\* concatenated in pack order, are the bytes that were appended.
C4_RoundTrip ==
    lastOp = "flush" =>
        \A k \in 1..Len(appended) :
            LET es == EntriesOf(k)
            IN  Concat([n \in 1..Len(es) |-> EntryBody(es[n])], Len(es)) = appended[k].data

\* after flush, some file lies in two chunks with bytes in both
C4_Witness ==
    /\ lastOp = "flush"
    /\ \E k \in 1..Len(appended) :
          LET es == EntriesOf(k)
          IN  /\ Len(es) >= 2
              /\ es[1].chunk # es[2].chunk
              /\ EntryHeader(es[1]).dataSize > 0
              /\ EntryHeader(es[2]).dataSize > 0

\* C5: after flush, every file appended with start_line = 0 has exactly one
\* entry with start_line = 0 in the pack, empty files included.
C5_EveryFileEmitted ==
    lastOp = "flush" =>
        \A k \in 1..Len(appended) :
            appended[k].startLine = 0 =>
                Cardinality({n \in 1..Len(PackEntries) :
                                /\ EntryName(PackEntries[n]) = PathOf(k)
                                /\ EntryHeader(PackEntries[n]).startLine = 0}) = 1

\* C6: after flush of appends that all had start_line = 0,
\* statistics.fileCount is the number of files appended.
C6_StatisticsFileCount ==
    (lastOp = "flush" /\ \A k \in 1..Len(appended) : appended[k].startLine = 0)
        => statistics.fileCount = Len(appended)

\* ------------------------------------------------------------- claims: index
\* the 4-byte windows of a file's body that hold no '\n'
LineWindows(file) ==
    {w \in 0..(file.contents.count - 4) :
        \A o \in 0..3 : BlobData(file.contents, w + o) # NL}

\* C7: in a chunk with index_size > 0, every 4-byte window of every fragment
\* body that contains no '\n' is among the ngrams put into the bloom filter.
C7_BloomNoFalseNegatives ==
    (ixPc = "indexed" /\ ixIndex.size > 0) =>
        \A i \in 1..Len(ixChunk.files) :
            \A w \in LineWindows(ixChunk.files[i]) :
                ngram(BlobData(ixChunk.files[i].contents, w),
                      BlobData(ixChunk.files[i].contents, w + 1),
                      BlobData(ixChunk.files[i].contents, w + 2),
                      BlobData(ixChunk.files[i].contents, w + 3)) \in ixIndex.ngrams

\* an indexed chunk whose first file starts with a window found nowhere else
C7_Witness ==
    /\ ixPc = "indexed"
    /\ ixIndex.size > 0
    /\ 0 \in LineWindows(ixChunk.files[1])
    /\ BlobData(ixChunk.files[1].contents, 0) # ixChunk.files[1].contents.storage.fill

\* C8: with d the body bytes of the chunk, index_size is 0 when d / 50 < 1024,
\* and otherwise index_size = d / 50 and 1 <= index_hash_iters <= 16.
C8_BloomSizing ==
    ixPc = "indexed" =>
        LET d == SumTo([i \in 1..Len(ixChunk.files) |-> ixChunk.files[i].contents.count],
                       Len(ixChunk.files))
        IN  IF d \div 50 < 1024
            THEN ixIndex.size = 0
            ELSE ixIndex.size = d \div 50 /\ ixIndex.iterations \in 1..16

\* a chunk of exactly 50 * 1024 body bytes was indexed
C8_Witness ==
    /\ ixPc = "indexed"
    /\ ixIndex.size = 1024
    /\ ixIndex.iterations \in 1..16

\* ------------------------------------------------------------- claims: getChanges
\* the paths of `files` that are not in `packFiles`, or are there with another
\* timeStamp or fileSize
ChangedPaths(files, packFiles) ==
    {files[i].path : i \in {j \in 1..Len(files) :
        \A k \in 1..Len(packFiles) :
            packFiles[k].path = files[j].path =>
                \/ packFiles[k].timeStamp # files[j].timeStamp
                \/ packFiles[k].fileSize # files[j].fileSize}}

\* C9: for sorted lists without duplicates getChanges returns, in sorted order,
\* exactly the paths of `current` that are absent from `pack` or differ in
\* mtime or size; a path that is only in `pack` is never returned.
C9_StartupDiff ==
    gcPc \in {"done", "crashed"} =>
        /\ gcPc = "done"
        /\ gcResult = SortedSeq(ChangedPaths(gcFiles, gcPackFiles))

\* watchProject when every write of the changes file succeeds
NextWatchWrites ==
    \/ \E npath \in Paths : FileChanged(npath)
    \/ Seed
    \/ WriteChangesRemove
    \/ WriteChangesOpen
    \/ WriteChangesLine
    \/ WriteChangesRename
    \/ WaitChanged
    \/ WaitForEnter
    \/ WaitForTimeout
    \/ WaitForNotified
    \/ WaitForSpurious
    \/ UpdateProject

SpecWatchWrites ==
    /\ InitWatch
    /\ [][NextWatchWrites]_vars
    /\ WF_vars(CoordinatorStep)
    /\ SF_vars(WaitForTimeout)

\* ------------------------------------------------------------- claims: watcher
\* C10: the changes file does not exist, or it holds the complete sorted list
\* of the paths that context.changedFiles held at some earlier instant.
C10_ChangesFileAtomicity ==
    qgc.exists => \E S \in held : qgc.lines = SortedSeq(S)

\* updateProject calls made or decided (the set is cleared, the call follows)
Escalations == updates + (IF watchPc = "update" THEN 1 ELSE 0)

\* C11: once context.changedFiles holds more than kWatchUpdateThresholdFiles
\* paths and no further notification arrives, updateProject is called, it is
\* called exactly once more, and the set is empty from then on.
C11_WatcherEscalation ==
    \A n \in 0..MaxNotifications : \A e \in 0..MaxNotifications :
        []((/\ Cardinality(changedFiles) > kWatchUpdateThresholdFiles
            /\ Escalations = e
            /\ notifications = n
            /\ [](notifications = n))
           => <>[](changedFiles = {} /\ updates = e + 1))

\* after the last notification the set was cleared and updateProject called once
C11_Witness ==
    /\ notifications = MaxNotifications
    /\ \E S \in held : Cardinality(S) = MaxNotifications
    /\ updates = 1
    /\ changedFiles = {}
    /\ watchPc = "loop"

\* ------------------------------------------------------------- claims: buildProject
\* C12: when a write to the pack output has failed, the failure is reported
\* to the caller and the temp pack is not renamed over the target.
C12_OutputFailureFatal ==
    (buildPc = "done" /\ writeFailed) => (~targetRenamed /\ "write" \in errors)

\* ------------------------------------------------------------- claims: hysteresis
\* the bytes of the fragments in the pending queue
PendingBytes ==
    SumTo([i \in 1..Len(pendingFiles) |-> pendingFiles[i].contents.count], Len(pendingFiles))

\* C13: after appendFilePart returns fewer than 2 * kChunkSize bytes are
\* pending, after flush returns none is, and an append writes a chunk only
\* when the pending bytes had reached 2 * kChunkSize.
C13_Hysteresis ==
    /\ [](/\ pendingSize = PendingBytes
          /\ lastOp = "append" => pendingSize < 2 * kChunkSize
          /\ lastOp = "flush" => pendingSize = 0)
    /\ [][(lastOp' = "append" /\ Len(outData') > Len(outData))
            => pendingSize + Len(appended'[Len(appended')].data) >= 2 * kChunkSize]_vars

\* an append has cut a chunk and left bytes pending; the flush took them
C13_Witness ==
    /\ lastOp = "flush"
    /\ Len(outData) >= 2
    /\ \E i \in 1..Len(appended) :
          SumTo([j \in 1..Len(appended) |-> Len(appended[j].data)], i) = 2 * kChunkSize

\* ------------------------------------------------------------- claims: deferred split
\* C14: when a cut meets, with at least one file in the chunk, a fragment
\* larger than the remaining size that has no line end within the remaining
\* size, the chunk is written with the files before the fragment only and the
\* fragment is the front of the pending queue, unchanged.
C14_DeferredSplit ==
    [][\A k \in 1..Len(pendingFiles) :
          DeferredSplit(pendingFiles, k, kChunkSize) =>
              /\ Len(outData') = Len(outData) + 1
              /\ outData'[Len(outData')].files = SubSeq(pendingFiles, 1, k)
              /\ pendingFiles' = SubSeq(pendingFiles, k + 1, Len(pendingFiles))
              /\ Head(pendingFiles') = pendingFiles[k + 1]
              /\ pendingSize' = pendingSize - SumTo([i \in 1..Len(pendingFiles) |->
                                                    pendingFiles[i].contents.count], k)]_vars

\* a cut has put a fragment back whole behind a chunk of one non-empty file
C14_Witness ==
    /\ lastOp = "deferred"
    /\ Len(outData) = 1
    /\ outData[1].header.uncompressedSize > sizeofDataChunkFileHeader + 1
    /\ pendingFiles # <<>>
    /\ Head(pendingFiles).contents.count > kChunkSize

\* ------------------------------------------------------------- claims: hash count
\* floor(0.693147181 * m) for m < 3 * 10^6
LnTwoTimesWide(m) == (693 * m + (147 * m + (181 * m) \div 1000) \div 1000) \div 1000

\* round(0.693147181 * m / n) = floor((2 * 0.693147181 * m + n) / (2 * n))
RoundedHashCount(m, n) == (LnTwoTimesWide(2 * m) + n) \div (2 * n)

\* C15: for an index of index_size > 0 bytes and n distinct ngrams the
\* hash count is round(ln(2) * index_size * 8 / n) clamped to [1, 16], and 1
\* when n = 0.
C15_HashCount ==
    (hashPc = "done" /\ hashIndexSize > 0) =>
        hashIterations =
            IF hashItemCount = 0 THEN 1
            ELSE LET k == RoundedHashCount(hashIndexSize * 8, hashItemCount)
                 IN  IF k < 1 THEN 1 ELSE IF k > 16 THEN 16 ELSE k

\* ------------------------------------------------------------- claims: metadata prefix
\* in chunk c every name lies before every body
NamesPrecedeBodies(c) ==
    \A i \in 1..Len(outData[c].data.table) : \A j \in 1..Len(outData[c].data.table) :
        outData[c].data.table[i].nameOffset + outData[c].data.table[i].nameLength
            <= outData[c].data.table[j].dataOffset

\* the bytes of chunk c that getDataFileList decompresses
DecompressedPrefix(c) == outData[c].header.fileTableSize

\* C16: in every chunk written the names precede the bodies, fileTableSize
\* covers the table and the names, and every name read by processChunk lies
\* within the first fileTableSize bytes of the payload.
C16_MetadataPrefix ==
    \A c \in 1..Len(outData) :
        /\ NamesPrecedeBodies(c)
        /\ outData[c].header.fileTableSize >=
               sizeofDataChunkFileHeader * outData[c].header.fileCount
                   + SumTo([i \in 1..Len(outData[c].data.table) |->
                               outData[c].data.table[i].nameLength],
                           Len(outData[c].data.table))
        /\ \A i \in 1..Len(outData[c].data.table) :
               outData[c].data.table[i].nameOffset + outData[c].data.table[i].nameLength
                   <= DecompressedPrefix(c)

\* ------------------------------------------------------------- claims: watcher loop
\* C17: context.changedFiles loses paths only in the step where wait_for
\* has timed out, it then holds more than kWatchUpdateThresholdFiles paths
\* and is emptied; updateProject is called only after that step; and from the
\* head of the loop with a snapshot of at most kWatchUpdateThresholdFiles
\* paths the coordinator goes on only by the untimed wait, the snapshot and
\* writeChanges.
C17_RepackOnlyAboveThreshold ==
    [][/\ (~(changedFiles \subseteq changedFiles') \/ (watchPc' = "update" /\ watchPc # "update"))
          => /\ watchPc = "timedwait"
             /\ watchPc' = "update"
             /\ Cardinality(changedFiles) > kWatchUpdateThresholdFiles
             /\ changedFiles' = {}
       /\ updates' # updates => (watchPc = "update" /\ updates' = updates + 1)
       /\ watchPc' = "timedwait" =>
             (watchPc = "timedwait" \/ Len(locChangedFiles) > kWatchUpdateThresholdFiles)
       /\ (watchPc = "loop" /\ Len(locChangedFiles) <= kWatchUpdateThresholdFiles
              /\ watchPc' # "loop")
          => /\ watchPc' = "write"
             /\ Cardinality(changedFiles) # Len(locChangedFiles)
             /\ locChangedFiles' = SortedSeq(changedFiles)
             /\ changedFiles' = changedFiles]_vars

\* a changes file written below the threshold, then a set above it cleared
C17_Witness ==
    /\ watchPc = "update"
    /\ changedFiles = {}
    /\ locChangedFiles = <<>>
    /\ qgc.exists
    /\ \E S \in held : Cardinality(S) > kWatchUpdateThresholdFiles

\* the paths the changes file lists; no file lists none
QgcPaths == IF qgc.exists THEN qgc.lines ELSE <<>>

\* C18: when notifications stop while context.changedFiles holds at most
\* kWatchUpdateThresholdFiles paths, the changes file ends up listing exactly
\* the paths of the set.
C18_EventualConsistency ==
    \A n \in 0..MaxNotifications :
        []((/\ Cardinality(changedFiles) <= kWatchUpdateThresholdFiles
            /\ notifications = n
            /\ [](notifications = n))
           => <>[](QgcPaths = SortedSeq(changedFiles)))

\* a path reported after a repack is the one line of the changes file
C18_Witness ==
    /\ notifications = MaxNotifications
    /\ updates = 1
    /\ Cardinality(changedFiles) = 1
    /\ qgc.exists
    /\ qgc.lines = SortedSeq(changedFiles)
    /\ watchPc = "loop"

\* C19: whenever the predicate of the untimed wait is evaluated the last
\* snapshot is a subset of context.changedFiles, so equal sizes mean equal sets.
C19_SizePredicateSound ==
    (watchPc = "loop" /\ ~updateNeeded) =>
        /\ SeqToSet(locChangedFiles) \subseteq changedFiles
        /\ Cardinality(SeqToSet(locChangedFiles)) = Len(locChangedFiles)
        /\ (Cardinality(changedFiles) = Len(locChangedFiles)
               => changedFiles = SeqToSet(locChangedFiles))

\* the coordinator is blocked in the untimed wait on a set a notifier filled
C19_Witness ==
    /\ watchPc = "loop"
    /\ ~updateNeeded
    /\ notifications > 0
    /\ changedFiles # {}
    /\ Cardinality(changedFiles) = Len(locChangedFiles)

\* ------------------------------------------------------------- claims: getChanges bounds
\* C20: getChanges never reads files[fileIt] with fileIt >= files.size()
C20_NoReadPastEnd ==
    gcPc # "idle" => ~gcOob

\* ------------------------------------------------------------- claims: termination
\* C21: every cut removes a fragment from the pending queue or takes at
\* least one pending byte and never adds any, a chunk is written only with at
\* least one file record, and the cuts come to an end with no byte pending.
C21_CuttingTerminates ==
    /\ [][/\ \/ Len(pendingFiles') < Len(pendingFiles)
             \/ pendingSize' < pendingSize
          /\ Len(pendingFiles') <= Len(pendingFiles)
          /\ pendingSize' <= pendingSize
          /\ Len(outData') > Len(outData) => outData'[Len(outData')].header.fileCount >= 1]_vars
    /\ [](\A c \in 1..Len(outData) : outData[c].header.fileCount >= 1)
    /\ <>[](pendingSize = 0)

\* the cuts of a queue that began with an empty file, then a line longer
\* than kChunkSize without a line end, have ended
C21_Witness ==
    /\ pendingSize = 0
    /\ Len(outData) >= 2
    /\ outData[1].files[1].contents.count = 0
    /\ \E c \in 1..Len(outData) :
          /\ Len(outData[c].files) = 1
          /\ outData[c].files[1].contents.count > kChunkSize
          /\ \A i \in 0..(outData[c].files[1].contents.count - 1) :
                BlobData(outData[c].files[1].contents, i) # NL

====
